---- MODULE Spec2Model ----
(***************************************************************************)
(* Analytics derivation engine of graph-crime-detection                    *)
(* (src/pipelines/data_generation_dlt.py, gold layer).                     *)
(*                                                                         *)
(* A table is a bag of rows (a Spark DataFrame is a multiset).  Times are  *)
(* whole minutes since SIMULATION_START (2025-01-05T00:00).  A time_bucket *)
(* string "YYYY-MM-DDTHH:MM" is the tuple <<day, hour, minute>>.  Weights  *)
(* and scores are fixed point: weights in 1/1000 (Milli), scores in        *)
(* 1/1000000 (Micro), so 0.1 * weight is 100 * milliweight.  Entity ids    *)
(* and edge ids are sequences of one-character strings, compared the way   *)
(* Spark compares strings (byte by byte).                                  *)
(***************************************************************************)
EXTENDS Integers, Sequences, FiniteSets, Bags, TLC

VARIABLES
    pc,                     \* the pipeline update's position in the DAG
    location_events_silver, \* bag of event rows
    co_presence_edges,      \* bag of edge rows
    entity_case_overlap,    \* bag of overlap rows
    social_edges_silver,    \* bag of social edge rows
    suspect_rankings,       \* bag of ranking rows
    handoff_candidates,     \* bag of handoff rows
    cell_device_counts,     \* bag of per-cell, per-bucket rows
    top_handoff,            \* what validation check 6 has collected
    previous_update,        \* the tables as the update before this one left them
    sync_pc,                \* the sync trigger notebook's position
    results,                \* one record per synced table, in trigger order
    pending,                \* triggered tables the wait loop still polls
    completed,              \* tables the wait loop has seen finish
    elapsed,                \* seconds since the wait loop started
    exit_value              \* what the notebook exits with

\* the variables of the sync trigger notebook
syncVars == <<sync_pc, results, pending, completed, elapsed, exit_value>>

vars == <<pc, location_events_silver, co_presence_edges, entity_case_overlap,
          social_edges_silver, suspect_rankings, handoff_candidates,
          cell_device_counts, top_handoff, previous_update, syncVars>>

----------------------------------------------------------------------------
(* Bounds of the model *)

MaxEvents == 4
MaxCrowd == 6
MaxPartnerEvents == 6
MaxDevices == 41
MaxPopulation == 1
MaxRerunEvents == 3
MaxTables == 2

----------------------------------------------------------------------------
(* Fixed point *)

Milli == 1000
Micro == 1000000

\* what a left join leaves in a weight column that found no match
NULL == -1

----------------------------------------------------------------------------
(* Strings *)

Alphabet == <<"0", "1", "2", "3", "4", "5", "6", "7", "8", "9",
              "C", "E", "O", "P", "_">>

Ord(c) == CHOOSE i \in 1..Len(Alphabet) : Alphabet[i] = c

RECURSIVE StrLess(_, _)
StrLess(a, b) ==
    IF b = <<>> THEN FALSE
    ELSE IF a = <<>> THEN TRUE
    ELSE IF Ord(Head(a)) # Ord(Head(b)) THEN Ord(Head(a)) < Ord(Head(b))
    ELSE StrLess(Tail(a), Tail(b))

RECURSIVE ConcatWs(_, _)
ConcatWs(sep, parts) ==
    IF Len(parts) = 0 THEN <<>>
    ELSE IF Len(parts) = 1 THEN parts[1]
    ELSE parts[1] \o sep \o ConcatWs(sep, Tail(parts))

SUSPECT_1_ID == <<"E", "_", "0", "4", "1", "2">>
SUSPECT_2_ID == <<"E", "_", "1", "0", "9", "8">>
BURNER_ENTITY_ID == <<"E", "_", "7", "7", "3", "4">>
DECOY_ENTITY_ID == <<"E", "_", "5", "5", "5", "5">>
FENCE_ENTITY_ID == <<"E", "_", "9", "9", "0", "1">>

\* f"{n:05d}"
Format05d(n) ==
    [k \in 1..5 |-> Alphabet[((n \div (10 ^ (5 - k))) % 10) + 1]]

\* the entity_id of person i of the population
PopulationId(i) == <<"E", "_">> \o Format05d(10000 + i)

----------------------------------------------------------------------------
(* Bags *)

RECURSIVE SumFn(_)
SumFn(f) ==
    IF DOMAIN f = {} THEN 0
    ELSE LET x == CHOOSE x \in DOMAIN f : TRUE
         IN  f[x] + SumFn([y \in (DOMAIN f) \ {x} |-> f[y]])

Rows(B) == DOMAIN B

\* the bag with n copies of row r
Copies(r, n) == [x \in {r} |-> n]

Max(S) == CHOOSE x \in S : \A y \in S : y <= x
Min(S) == CHOOSE x \in S : \A y \in S : x <= y

Least(a, b) == IF a <= b THEN a ELSE b

----------------------------------------------------------------------------
(* Time *)

TIME_BUCKET_MINUTES == 15

Minute(dt) == dt % 60
Hour(dt) == (dt \div 60) % 24
Day(dt) == dt \div 1440

Strftime(dt) == <<Day(dt), Hour(dt), Minute(dt)>>

ToTimestamp(s) == s[1] * 1440 + s[2] * 60 + s[3]

get_time_bucket(dt) ==
    LET minute_bucket == (Minute(dt) \div TIME_BUCKET_MINUTES) * TIME_BUCKET_MINUTES
    IN  Strftime(dt - Minute(dt) + minute_bucket)

At(day, hour, minute) == day * 1440 + hour * 60 + minute

----------------------------------------------------------------------------
(* Reference data *)

DC_CELL == [h3 |-> "892a1008003ffff", city |-> "Washington, DC", state |-> "DC"]
DC_ADJACENT_CELL == [h3 |-> "892a1008007ffff", city |-> "Washington, DC", state |-> "DC"]
VA_CELL == [h3 |-> "892a1072a93ffff", city |-> "Arlington", state |-> "VA"]
TN_CELL == [h3 |-> "8844c0a305fffff", city |-> "Nashville", state |-> "TN"]
TN_MIDTOWN_CELL == [h3 |-> "8844c0a307fffff", city |-> "Nashville", state |-> "TN"]
MD_CELL == [h3 |-> "882a100861fffff", city |-> "Baltimore", state |-> "MD"]

DC_INCIDENT == At(10, 14, 30)
DC_INCIDENT_LATE == At(10, 14, 42)
BURNER_SWITCH == At(10, 14, 45)
VA_INCIDENT == At(7, 3, 30)
TN_INCIDENT == At(3, 15, 15)
TN_MIDTOWN_INCIDENT == At(1, 2, 15)
MD_INCIDENT == At(4, 11, 0)
CONTINUATION_1 == At(10, 15, 0)
CONTINUATION_2 == At(10, 15, 15)

cases_silver ==
    SetToBag({
        [case_id |-> "CASE_TN_005", case_type |-> "burglary",
         city |-> "Nashville", state |-> "TN", h3_cell |-> "8844c0a307fffff",
         incident_time_bucket |-> <<1, 2, 15>>,
         incident_start_ts |-> At(1, 2, 10), incident_end_ts |-> At(1, 2, 30)],
        [case_id |-> "CASE_TN_007", case_type |-> "burglary",
         city |-> "Nashville", state |-> "TN", h3_cell |-> "8844c0a305fffff",
         incident_time_bucket |-> <<3, 15, 15>>,
         incident_start_ts |-> At(3, 15, 10), incident_end_ts |-> At(3, 15, 25)],
        [case_id |-> "CASE_VA_003", case_type |-> "burglary",
         city |-> "Arlington", state |-> "VA", h3_cell |-> "892a1072a93ffff",
         incident_time_bucket |-> <<7, 3, 30>>,
         incident_start_ts |-> At(7, 3, 20), incident_end_ts |-> At(7, 3, 45)],
        [case_id |-> "CASE_DC_002", case_type |-> "burglary",
         city |-> "Washington, DC", state |-> "DC", h3_cell |-> "892a1008017ffff",
         incident_time_bucket |-> <<5, 22, 0>>,
         incident_start_ts |-> At(5, 21, 55), incident_end_ts |-> At(5, 22, 15)],
        [case_id |-> "CASE_DC_004", case_type |-> "burglary",
         city |-> "Washington, DC", state |-> "DC", h3_cell |-> "892a100800bffff",
         incident_time_bucket |-> <<8, 23, 45>>,
         incident_start_ts |-> At(8, 23, 40), incident_end_ts |-> At(9, 0, 5)],
        [case_id |-> "CASE_MD_002", case_type |-> "suspected_fencing",
         city |-> "Baltimore", state |-> "MD", h3_cell |-> "882a100861fffff",
         incident_time_bucket |-> <<9, 14, 0>>,
         incident_start_ts |-> At(9, 13, 45), incident_end_ts |-> At(9, 14, 30)],
        [case_id |-> "CASE_DC_001", case_type |-> "burglary",
         city |-> "Washington, DC", state |-> "DC", h3_cell |-> "892a1008003ffff",
         incident_time_bucket |-> <<10, 14, 30>>,
         incident_start_ts |-> At(10, 14, 25), incident_end_ts |-> At(10, 14, 40)],
        [case_id |-> "CASE_MD_001", case_type |-> "suspected_fencing",
         city |-> "Baltimore", state |-> "MD", h3_cell |-> "882a100861fffff",
         incident_time_bucket |-> <<4, 11, 0>>,
         incident_start_ts |-> At(4, 10, 45), incident_end_ts |-> At(4, 11, 30)]
    })

social_edges_bronze ==
    { [edge_id |-> "SOC_001", entity_id_1 |-> SUSPECT_1_ID,
       entity_id_2 |-> SUSPECT_2_ID, weight |-> 900],
      [edge_id |-> "SOC_005", entity_id_1 |-> BURNER_ENTITY_ID,
       entity_id_2 |-> SUSPECT_1_ID, weight |-> 950] }

----------------------------------------------------------------------------
(* The pings the event store can supply *)

Ping(entity_id, dt, cell) == [entity_id |-> entity_id, dt |-> dt, cell |-> cell]

EntityIds == {SUSPECT_1_ID, SUSPECT_2_ID, BURNER_ENTITY_ID}

\* where and when a device can be seen
Sightings ==
    { <<DC_CELL, DC_INCIDENT>>, <<DC_CELL, DC_INCIDENT_LATE>>,
      <<DC_CELL, BURNER_SWITCH>>, <<DC_ADJACENT_CELL, BURNER_SWITCH>>,
      <<VA_CELL, VA_INCIDENT>>, <<TN_CELL, TN_INCIDENT>>,
      <<MD_CELL, MD_INCIDENT>> }

Feed == { Ping(e, s[2], s[1]) : e \in EntityIds, s \in Sightings }

CrowdFeed ==
    { Ping(e, dt, DC_CELL) : e \in EntityIds, dt \in {DC_INCIDENT, DC_INCIDENT_LATE} }

\* the suspects at the burglary scenes of the series
SeriesFeed ==
    { Ping(e, s[2], s[1]) :
        e \in {SUSPECT_1_ID, SUSPECT_2_ID},
        s \in { <<TN_MIDTOWN_CELL, TN_MIDTOWN_INCIDENT>>, <<TN_CELL, TN_INCIDENT>>,
                 <<VA_CELL, VA_INCIDENT>>, <<DC_CELL, DC_INCIDENT>> } }

\* the devices around the DC incident cell in the hour of the burner switch
HandoffFeed ==
    { Ping(e, s[2], s[1]) :
        e \in EntityIds,
        s \in { <<DC_CELL, DC_INCIDENT>>, <<DC_CELL, BURNER_SWITCH>>,
                 <<DC_CELL, CONTINUATION_1>>, <<DC_CELL, CONTINUATION_2>>,
                 <<DC_ADJACENT_CELL, BURNER_SWITCH>> } }
    \cup { Ping(DECOY_ENTITY_ID, BURNER_SWITCH, DC_ADJACENT_CELL) }

\* few devices, at a burglary scene, at the fence's place, or switching
SparseFeed ==
    { Ping(SUSPECT_1_ID, DC_INCIDENT, DC_CELL),
      Ping(SUSPECT_2_ID, DC_INCIDENT, DC_CELL),
      Ping(BURNER_ENTITY_ID, BURNER_SWITCH, DC_CELL),
      Ping(SUSPECT_1_ID, MD_INCIDENT, MD_CELL),
      Ping(SUSPECT_2_ID, MD_INCIDENT, MD_CELL) }

\* the devices in the DC incident cell around the switch
RerunFeed ==
    { Ping(e, DC_INCIDENT, DC_CELL) : e \in EntityIds }
    \cup { Ping(BURNER_ENTITY_ID, BURNER_SWITCH, DC_CELL) }

\* the switch in the DC incident cell, with the adjacent cell in reach of all
PartnerFeed ==
    { Ping(e, s[2], s[1]) :
        e \in EntityIds,
        s \in { <<DC_CELL, DC_INCIDENT>>, <<DC_CELL, BURNER_SWITCH>>,
                 <<DC_ADJACENT_CELL, BURNER_SWITCH>> } }

\* the population fills the DC incident cell person by person; the first
\* person pings a second time in the bucket
PopulationFeed ==
    LET n == Cardinality({ r.entity_id : r \in Rows(location_events_silver) })
    IN  { Ping(PopulationId(n), DC_INCIDENT, DC_CELL),
          Ping(PopulationId(0), DC_INCIDENT_LATE, DC_CELL) }

create_event(entity_id, dt, cell_info, city, state) ==
    [entity_id |-> entity_id,
     timestamp |-> dt,
     time_bucket |-> get_time_bucket(dt),
     h3_cell |-> cell_info.h3,
     city |-> city,
     state |-> state]

\* one row of location_events_silver from one row of location_events_bronze
SilverEvent(b) ==
    [entity_id |-> b.entity_id,
     event_timestamp |-> b.timestamp,
     time_bucket |-> b.time_bucket,
     time_bucket_ts |-> ToTimestamp(b.time_bucket),
     h3_cell |-> b.h3_cell,
     city |-> b.city,
     state |-> b.state]

----------------------------------------------------------------------------
(* Co-Presence Engine *)

CopresenceOn_AnyBucket(e1, e2) ==
    /\ e1.h3_cell = e2.h3_cell
    /\ StrLess(e1.entity_id, e2.entity_id)

CopresenceOn(e1, e2) ==
    /\ e1.h3_cell = e2.h3_cell
    /\ e1.time_bucket = e2.time_bucket
    /\ StrLess(e1.entity_id, e2.entity_id)

CopresenceKey(p) ==
    [entity_id_1 |-> p[1].entity_id,
     entity_id_2 |-> p[2].entity_id,
     h3_cell |-> p[1].h3_cell,
     city |-> p[1].city,
     state |-> p[1].state]

EdgeWeight_Uncapped(co_occurrence_count) ==
    (co_occurrence_count * Milli) \div 5

EdgeWeight(co_occurrence_count) ==
    Least(1 * Milli, (co_occurrence_count * Milli) \div 5)

EdgeId(entity_id_1, entity_id_2) ==
    ConcatWs(<<"_">>, << <<"C", "O", "P">>, entity_id_1, entity_id_2 >>)

CountStar_DistinctPairs(G, events) == Cardinality(G)

\* count("*") of a group of joined pairs: every pair of rows counts
CountStar(G, events) == SumFn([p \in G |-> events[p[1]] * events[p[2]]])

CoPresenceEdges(events) ==
    LET J == { p \in Rows(events) \X Rows(events) : CopresenceOn(p[1], p[2]) }
        Keys == { CopresenceKey(p) : p \in J }
        Row(k) ==
            LET G == { p \in J : CopresenceKey(p) = k }
                cnt == CountStar(G, events)
                tbs == { p[1].time_bucket : p \in G }
            IN  [entity_id_1 |-> k.entity_id_1,
                 entity_id_2 |-> k.entity_id_2,
                 h3_cell |-> k.h3_cell,
                 city |-> k.city,
                 state |-> k.state,
                 co_occurrence_count |-> cnt,
                 time_buckets |-> tbs,
                 first_seen_together |-> Min({ p[1].time_bucket_ts : p \in G }),
                 last_seen_together |-> Max({ p[1].time_bucket_ts : p \in G }),
                 time_bucket_count |-> Cardinality(tbs),
                 weight |-> EdgeWeight(cnt),
                 edge_id |-> EdgeId(k.entity_id_1, k.entity_id_2)]
    IN  SetToBag({ Row(k) : k \in Keys })

----------------------------------------------------------------------------
(* Entity-Case Overlap Resolver *)

\* the bag of rows F[p], where the joined pair p stands for M[p] rows
JoinRows(F, M) ==
    [o \in { F[p] : p \in DOMAIN F } |->
        SumFn([p \in { q \in DOMAIN F : F[q] = o } |-> M[p]])]

OverlapOn_ExactWindow(event, case) ==
    /\ event.h3_cell = case.h3_cell
    /\ event.time_bucket = case.incident_time_bucket
    /\ event.event_timestamp >= case.incident_start_ts
    /\ event.event_timestamp <= case.incident_end_ts

OverlapOn(event, case) ==
    /\ event.h3_cell = case.h3_cell
    /\ event.time_bucket = case.incident_time_bucket

InExactWindow(event_timestamp, incident_start_ts, incident_end_ts) ==
    /\ event_timestamp >= incident_start_ts
    /\ event_timestamp <= incident_end_ts

OverlapRow(p) ==
    [entity_id |-> p[1].entity_id,
     case_id |-> p[2].case_id,
     case_type |-> p[2].case_type,
     city |-> p[2].city,
     state |-> p[2].state,
     h3_cell |-> p[1].h3_cell,
     time_bucket |-> p[1].time_bucket,
     event_timestamp |-> p[1].event_timestamp,
     incident_start_ts |-> p[2].incident_start_ts,
     incident_end_ts |-> p[2].incident_end_ts,
     overlap_score |-> 1 * Milli,
     in_exact_window |-> InExactWindow(p[1].event_timestamp,
                                       p[2].incident_start_ts,
                                       p[2].incident_end_ts)]

EntityCaseOverlap(events, cases) ==
    LET J == { p \in Rows(events) \X Rows(cases) : OverlapOn(p[1], p[2]) }
    IN  JoinRows([p \in J |-> OverlapRow(p)],
                 [p \in J |-> events[p[1]] * cases[p[2]]])

----------------------------------------------------------------------------
(* The crime story the generator injects *)

CRIME_SCENES ==
    << [case_id |-> "CASE_TN_005", h3_cell |-> "8844c0a307fffff",
        time_bucket |-> <<1, 2, 15>>, city |-> "Nashville", state |-> "TN",
        suspects |-> {SUSPECT_1_ID, SUSPECT_2_ID}],
       [case_id |-> "CASE_TN_007", h3_cell |-> "8844c0a305fffff",
        time_bucket |-> <<3, 15, 15>>, city |-> "Nashville", state |-> "TN",
        suspects |-> {SUSPECT_1_ID, SUSPECT_2_ID}],
       [case_id |-> "CASE_DC_002", h3_cell |-> "892a1008017ffff",
        time_bucket |-> <<5, 22, 0>>, city |-> "Washington, DC", state |-> "DC",
        suspects |-> {SUSPECT_1_ID, SUSPECT_2_ID}],
       [case_id |-> "CASE_VA_003", h3_cell |-> "892a1072a93ffff",
        time_bucket |-> <<7, 3, 30>>, city |-> "Arlington", state |-> "VA",
        suspects |-> {SUSPECT_1_ID, SUSPECT_2_ID}],
       [case_id |-> "CASE_DC_004", h3_cell |-> "892a100800bffff",
        time_bucket |-> <<8, 23, 45>>, city |-> "Washington, DC", state |-> "DC",
        suspects |-> {SUSPECT_1_ID, SUSPECT_2_ID}],
       [case_id |-> "CASE_DC_001", h3_cell |-> "892a1008003ffff",
        time_bucket |-> <<10, 14, 30>>, city |-> "Washington, DC", state |-> "DC",
        suspects |-> {SUSPECT_1_ID, SUSPECT_2_ID}],
       [case_id |-> "CASE_MD_001", h3_cell |-> "882a100861fffff",
        time_bucket |-> <<4, 11, 0>>, city |-> "Baltimore", state |-> "MD",
        suspects |-> {SUSPECT_1_ID, FENCE_ENTITY_ID}],
       [case_id |-> "CASE_MD_002", h3_cell |-> "882a100861fffff",
        time_bucket |-> <<9, 14, 0>>, city |-> "Baltimore", state |-> "MD",
        suspects |-> {SUSPECT_2_ID, FENCE_ENTITY_ID}] >>

DC_CELL_RECURRING_ENTITIES == 5

BURNER_SWITCH_BUCKET_AtIncident == <<10, 14, 30>>

BURNER_SWITCH_BUCKET == <<10, 14, 45>>

\* the minutes add_story_event adds to the bucket: random.randint(0, 14),
\* drawn once for the whole story
StoryMinutes == {0, 14}

\* the arguments of one call of add_story_event
Visit(entity_id, bucket_str, h3_cell, city, state) ==
    [entity_id |-> entity_id, time_bucket |-> bucket_str, h3_cell |-> h3_cell,
     city |-> city, state |-> state]

VisitScene(entity_id, scene) ==
    Visit(entity_id, scene.time_bucket, scene.h3_cell, scene.city, scene.state)

add_story_event_Inclusive(v, minutes) ==
    [entity_id |-> v.entity_id,
     timestamp |-> ToTimestamp(v.time_bucket) + minutes + 1,
     time_bucket |-> v.time_bucket,
     h3_cell |-> v.h3_cell,
     city |-> v.city,
     state |-> v.state]

add_story_event(v, minutes) ==
    [entity_id |-> v.entity_id,
     timestamp |-> ToTimestamp(v.time_bucket) + minutes,
     time_bucket |-> v.time_bucket,
     h3_cell |-> v.h3_cell,
     city |-> v.city,
     state |-> v.state]

\* random.sample(population, n)
Sample(population, n) == { S \in SUBSET population : Cardinality(S) = n }

SuspectVisits ==
    SetToBag(UNION { { VisitScene(e, CRIME_SCENES[i]) : e \in CRIME_SCENES[i].suspects } :
                     i \in 1..Len(CRIME_SCENES) })

\* dc_scene = CRIME_SCENES[0]
CrowdVisits(selected_dc_entities) ==
    SetToBag({ VisitScene(e, CRIME_SCENES[1]) : e \in selected_dc_entities })

other_scenes ==
    { i \in 1..Len(CRIME_SCENES) : CRIME_SCENES[i].case_id # "CASE_DC_001" }

\* random.sample(other_scenes, random.randint(1, 2))
NoisePicks == Sample(other_scenes, 1) \cup Sample(other_scenes, 2)

NoiseVisits(picks) ==
    SetToBag(UNION { { VisitScene(e, CRIME_SCENES[i]) : i \in picks[e] } :
                     e \in DOMAIN picks })

continuation ==
    { <<<<10, 15, 0>>, "892a100800bffff">>, <<<<10, 15, 15>>, "892a100801fffff">>,
      <<<<10, 15, 30>>, "892a100802fffff">>, <<<<10, 16, 0>>, "892a100803fffff">>,
      <<<<10, 17, 0>>, "892a100804fffff">> }

BurnerVisits ==
    SetToBag(
        { Visit(SUSPECT_2_ID, BURNER_SWITCH_BUCKET, "892a1008003ffff",
                "Washington, DC", "DC"),
          Visit(BURNER_ENTITY_ID, BURNER_SWITCH_BUCKET, "892a1008003ffff",
                "Washington, DC", "DC"),
          Visit(DECOY_ENTITY_ID, BURNER_SWITCH_BUCKET, "892a1008007ffff",
                "Washington, DC", "DC") }
        \cup { Visit(e, c[1], c[2], "Washington, DC", "DC") :
                 e \in {BURNER_ENTITY_ID, SUSPECT_2_ID}, c \in continuation })

fence_routine_times == { <<2, 10, 0>>, <<6, 15, 0>>, <<11, 10, 0>> }

FenceVisits ==
    SetToBag({ Visit(FENCE_ENTITY_ID, t, MD_CELL.h3, "Baltimore", "MD") :
               t \in fence_routine_times })

\* location_events_silver of the story: the suspects at the scenes, the
\* crowd, the noise, the burner switch and the fence
StoryEvents(selected_dc_entities, picks, minutes) ==
    LET story == SuspectVisits (+) CrowdVisits(selected_dc_entities)
                 (+) NoiseVisits(picks) (+) BurnerVisits (+) FenceVisits
    IN  JoinRows([v \in Rows(story) |-> SilverEvent(add_story_event(v, minutes))],
                 story)

\* the pings of a working day's routine: residents of the DC metro in the
\* Georgetown cell, at a minute of the hour of the DC incident
RoutineTimes == { At(10, 14, 42), At(10, 14, 50) }

RoutinePings(population) ==
    { Ping(e, dt, DC_CELL) : e \in population, dt \in RoutineTimes }

RoutineEvents(routine) ==
    SetToBag({ SilverEvent(create_event(s.entity_id, s.dt, s.cell,
                                        s.cell.city, s.cell.state)) :
               s \in routine })

----------------------------------------------------------------------------
(* Social edges *)

SocialEdgesSilver(bronze) ==
    LET valid == { r \in Rows(bronze) : r.weight >= 0 /\ r.weight <= 1 * Milli }
    IN  [r \in valid |-> bronze[r]]

----------------------------------------------------------------------------
(* Suspect Ranking Engine *)

IsBurglary_Any(row) == TRUE

IsBurglary(row) == row.case_type = "burglary"

EntityCaseCounts_CountRows(entity_case) ==
    LET F == { r \in Rows(entity_case) : IsBurglary(r) }
        Row(e) ==
            LET G == { r \in F : r.entity_id = e }
            IN  [entity_id |-> e,
                 case_count |-> SumFn([r \in G |-> entity_case[r]]),
                 unique_cases |-> SumFn([r \in G |-> entity_case[r]]),
                 states_count |-> Cardinality({ r.state : r \in G }),
                 linked_cases |-> { r.case_id : r \in G },
                 linked_cities |-> { r.city : r \in G }]
    IN  SetToBag({ Row(e) : e \in { r.entity_id : r \in F } })

EntityCaseCounts(entity_case) ==
    LET F == { r \in Rows(entity_case) : IsBurglary(r) }
        Row(e) ==
            LET G == { r \in F : r.entity_id = e }
            IN  [entity_id |-> e,
                 case_count |-> SumFn([r \in G |-> entity_case[r]]),
                 unique_cases |-> Cardinality({ r.case_id : r \in G }),
                 states_count |-> Cardinality({ r.state : r \in G }),
                 linked_cases |-> { r.case_id : r \in G },
                 linked_cities |-> { r.city : r \in G }]
    IN  SetToBag({ Row(e) : e \in { r.entity_id : r \in F } })

\* edges.groupBy(col as entity_id).agg(sum(weight))
WeightBy(edges, col) ==
    LET Row(e) ==
            [entity_id |-> e,
             weight |-> SumFn([r \in { x \in Rows(edges) : x[col] = e } |->
                                  r.weight * edges[r]])]
    IN  SetToBag({ Row(e) : e \in { r[col] : r \in Rows(edges) } })

EndpointWeights_Distinct(edges) ==
    LET U == SetToBag(Rows(WeightBy(edges, "entity_id_1"))
                      \cup Rows(WeightBy(edges, "entity_id_2")))
        Row(e) ==
            [entity_id |-> e,
             total |-> SumFn([r \in { x \in Rows(U) : x.entity_id = e } |->
                                 r.weight * U[r]])]
    IN  SetToBag({ Row(e) : e \in { r.entity_id : r \in Rows(U) } })

\* the two per-endpoint sums, united and summed again per entity
EndpointWeights(edges) ==
    LET U == WeightBy(edges, "entity_id_1") (+) WeightBy(edges, "entity_id_2")
        Row(e) ==
            [entity_id |-> e,
             total |-> SumFn([r \in { x \in Rows(U) : x.entity_id = e } |->
                                 r.weight * U[r]])]
    IN  SetToBag({ Row(e) : e \in { r.entity_id : r \in Rows(U) } })

LeftMatches_Inner(scores, entity_id) ==
    { [total |-> r.total, n |-> scores[r]] :
        r \in { x \in Rows(scores) : x.entity_id = entity_id } }

\* the rows of scores a left join on entity_id pairs with one left row
LeftMatches(scores, entity_id) ==
    LET hit == { r \in Rows(scores) : r.entity_id = entity_id }
    IN  IF hit = {} THEN { [total |-> NULL, n |-> 1] }
        ELSE { [total |-> r.total, n |-> scores[r]] : r \in hit }

FillNa(v) == IF v = NULL THEN 0 ELSE v

RecurrenceScore(unique_cases) == unique_cases * 400000

CrossJurisdictionScore_Scaled(states_count) ==
    IF states_count > 1 THEN 350000 * (states_count - 1) ELSE 0

CrossJurisdictionScore(states_count) == IF states_count > 1 THEN 350000 ELSE 0

NetworkScore(total_copresence_weight, total_social_weight) ==
    Least(250000, total_copresence_weight * 100 + total_social_weight * 150)

DenseRank_Ascending(score, scores) == 1 + Cardinality({ x \in scores : x < score })

DenseRank(score, scores) == 1 + Cardinality({ x \in scores : x > score })

ScoredRow_NoNetwork(p) ==
    LET c == p[1]
        tcw == FillNa(p[2].total)
        tsw == FillNa(p[3].total)
        rec == RecurrenceScore(c.unique_cases)
        cross == CrossJurisdictionScore(c.states_count)
        net == NetworkScore(tcw, tsw)
    IN  [entity_id |-> c.entity_id,
         case_count |-> c.case_count,
         unique_cases |-> c.unique_cases,
         states_count |-> c.states_count,
         linked_cases |-> c.linked_cases,
         linked_cities |-> c.linked_cities,
         total_copresence_weight |-> tcw,
         total_social_weight |-> tsw,
         recurrence_score |-> rec,
         cross_jurisdiction_score |-> cross,
         network_score |-> net,
         total_score |-> rec + cross]

ScoredRow(p) ==
    LET c == p[1]
        tcw == FillNa(p[2].total)
        tsw == FillNa(p[3].total)
        rec == RecurrenceScore(c.unique_cases)
        cross == CrossJurisdictionScore(c.states_count)
        net == NetworkScore(tcw, tsw)
    IN  [entity_id |-> c.entity_id,
         case_count |-> c.case_count,
         unique_cases |-> c.unique_cases,
         states_count |-> c.states_count,
         linked_cases |-> c.linked_cases,
         linked_cities |-> c.linked_cities,
         total_copresence_weight |-> tcw,
         total_social_weight |-> tsw,
         recurrence_score |-> rec,
         cross_jurisdiction_score |-> cross,
         network_score |-> net,
         total_score |-> rec + cross + net]

SuspectRankings(entity_case, copresence, social) ==
    LET counts == EntityCaseCounts(entity_case)
        copresence_scores == EndpointWeights(copresence)
        social_scores == EndpointWeights(social)
        J == UNION { { <<c, m1, m2>> :
                         m1 \in LeftMatches(copresence_scores, c.entity_id),
                         m2 \in LeftMatches(social_scores, c.entity_id) } :
                     c \in Rows(counts) }
        scored == JoinRows([p \in J |-> ScoredRow(p)],
                           [p \in J |-> counts[p[1]] * p[2].n * p[3].n])
        totals == { r.total_score : r \in Rows(scored) }
        Ranked(r) == r @@ [rank |-> DenseRank(r.total_score, totals)]
    IN  JoinRows([r \in Rows(scored) |-> Ranked(r)], scored)

----------------------------------------------------------------------------
(* Handoff Detection Engine *)

\* time_bucket strings are compared character by character; the fields of
\* "YYYY-MM-DDTHH:MM" have a fixed width, so this is field by field
BucketLeq(a, b) ==
    \/ a[1] < b[1]
    \/ a[1] = b[1] /\ a[2] < b[2]
    \/ a[1] = b[1] /\ a[2] = b[2] /\ a[3] <= b[3]

MaxBucket(S) == CHOOSE x \in S : \A y \in S : BucketLeq(y, x)
MinBucket(S) == CHOOSE x \in S : \A y \in S : BucketLeq(x, y)

\* the (entity_id, h3_cell) groups of the events
EntityCells(events) ==
    { [entity_id |-> r.entity_id, h3_cell |-> r.h3_cell] : r \in Rows(events) }

EventsOf(events, k) ==
    { r \in Rows(events) : r.entity_id = k.entity_id /\ r.h3_cell = k.h3_cell }

LastSeen_PerBucket(events) ==
    { [entity_id |-> r.entity_id,
       h3_cell |-> r.h3_cell,
       last_bucket |-> r.time_bucket,
       last_seen_ts |-> r.time_bucket_ts] : r \in Rows(events) }

LastSeen(events) ==
    { [entity_id |-> k.entity_id,
       h3_cell |-> k.h3_cell,
       last_bucket |-> MaxBucket({ r.time_bucket : r \in EventsOf(events, k) }),
       last_seen_ts |-> Max({ r.time_bucket_ts : r \in EventsOf(events, k) })] :
      k \in EntityCells(events) }

FirstSeen(events) ==
    { [entity_id |-> k.entity_id,
       h3_cell |-> k.h3_cell,
       first_bucket |-> MinBucket({ r.time_bucket : r \in EventsOf(events, k) }),
       first_seen_ts |-> Min({ r.time_bucket_ts : r \in EventsOf(events, k) })] :
      k \in EntityCells(events) }

HandoffOn_AnyCell(old, new) == old.entity_id # new.entity_id

HandoffOn(old, new) ==
    /\ old.h3_cell = new.h3_cell
    /\ old.entity_id # new.entity_id

\* unix_timestamp counts seconds; the model's timestamps are whole minutes
UnixTimestamp(ts) == ts * 60

TimeDiffMinutes(old, new) ==
    (UnixTimestamp(new.first_seen_ts) - UnixTimestamp(old.last_seen_ts)) \div 60

InHandoffWindow_Inclusive(time_diff_minutes) ==
    time_diff_minutes >= 0 /\ time_diff_minutes <= 30

InHandoffWindow(time_diff_minutes) ==
    time_diff_minutes > 0 /\ time_diff_minutes <= 30

Handoffs_Unfiltered(events) ==
    LET J == { p \in LastSeen(events) \X FirstSeen(events) :
                 /\ HandoffOn(p[1], p[2])
                 /\ TimeDiffMinutes(p[1], p[2]) > 0 }
    IN  { [old_entity_id |-> p[1].entity_id,
           new_entity_id |-> p[2].entity_id,
           h3_cell |-> p[1].h3_cell,
           old_last_bucket |-> p[1].last_bucket,
           new_first_bucket |-> p[2].first_bucket,
           time_diff_minutes |-> TimeDiffMinutes(p[1], p[2])] : p \in J }

Handoffs(events) ==
    LET J == { p \in LastSeen(events) \X FirstSeen(events) :
                 /\ HandoffOn(p[1], p[2])
                 /\ InHandoffWindow(TimeDiffMinutes(p[1], p[2])) }
    IN  { [old_entity_id |-> p[1].entity_id,
           new_entity_id |-> p[2].entity_id,
           h3_cell |-> p[1].h3_cell,
           old_last_bucket |-> p[1].last_bucket,
           new_first_bucket |-> p[2].first_bucket,
           time_diff_minutes |-> TimeDiffMinutes(p[1], p[2])] : p \in J }

\* every edge row seen from its first endpoint, united with every edge row
\* seen from its second endpoint
Partners(copresence) ==
    LET D == Rows(copresence) \X {1, 2}
        Seen(d) ==
            IF d[2] = 1
            THEN [entity_id |-> d[1].entity_id_1, partner_id |-> d[1].entity_id_2,
                  partner_weight |-> d[1].weight]
            ELSE [entity_id |-> d[1].entity_id_2, partner_id |-> d[1].entity_id_1,
                  partner_weight |-> d[1].weight]
    IN  JoinRows([d \in D |-> Seen(d)], [d \in D |-> copresence[d[1]]])

\* the (op, np) pairs the two left joins match for handoff h
PartnerMatches(h, partners) ==
    { p \in Rows(partners) \X Rows(partners) :
        /\ h.old_entity_id = p[1].entity_id
        /\ h.new_entity_id = p[2].entity_id
        /\ p[1].partner_id = p[2].partner_id }

SharedPartners(h, partners) ==
    LET M == PartnerMatches(h, partners)
        n == SumFn([p \in M |-> partners[p[1]] * partners[p[2]]])
        w == SumFn([p \in M |->
                       p[2].partner_weight * partners[p[1]] * partners[p[2]]])
    IN  [shared_partner_count |-> n,
         shared_partners |-> { p[2].partner_id : p \in M },
         avg_partner_weight |-> IF n = 0 THEN NULL ELSE w \div n]

SpatialScore == 500000

TemporalScore_Exclusive(time_diff_minutes) ==
    IF time_diff_minutes < 15 THEN 300000
    ELSE IF time_diff_minutes < 30 THEN 200000
    ELSE 100000

TemporalScore(time_diff_minutes) ==
    IF time_diff_minutes <= 15 THEN 300000
    ELSE IF time_diff_minutes <= 30 THEN 200000
    ELSE 100000

PartnerScore_Always(shared_partner_count) == 200000

PartnerScore(shared_partner_count) ==
    IF shared_partner_count > 0 THEN 200000 ELSE 0

HandoffScored(h, partners) ==
    LET s == SharedPartners(h, partners)
        temporal == TemporalScore(h.time_diff_minutes)
        partner == PartnerScore(s.shared_partner_count)
    IN  h @@ s @@
        [spatial_score |-> SpatialScore,
         temporal_score |-> temporal,
         partner_score |-> partner,
         handoff_score |-> SpatialScore + temporal + partner]

HandoffCandidates(events, copresence) ==
    LET partners == Partners(copresence)
        scored == { HandoffScored(h, partners) : h \in Handoffs(events) }
        scores == { r.handoff_score : r \in scored }
    IN  SetToBag({ r @@ [rank |-> DenseRank(r.handoff_score, scores)] :
                   r \in scored })

----------------------------------------------------------------------------
(* Cell Aggregation Engine *)

CellBuckets(events) ==
    { [h3_cell |-> r.h3_cell, time_bucket |-> r.time_bucket,
       city |-> r.city, state |-> r.state] : r \in Rows(events) }

EventsIn(events, k) ==
    { r \in Rows(events) :
        /\ r.h3_cell = k.h3_cell /\ r.time_bucket = k.time_bucket
        /\ r.city = k.city /\ r.state = k.state }

IsHighActivity(device_count) == device_count >= 20

ActivityCategory_Exclusive(device_count) ==
    IF device_count > 40 THEN "very_high"
    ELSE IF device_count > 20 THEN "high"
    ELSE IF device_count > 10 THEN "medium"
    ELSE "low"

ActivityCategory(device_count) ==
    IF device_count >= 40 THEN "very_high"
    ELSE IF device_count >= 20 THEN "high"
    ELSE IF device_count >= 10 THEN "medium"
    ELSE "low"

CountDistinct(S) == Cardinality(S)

CellDeviceCounts(events) ==
    LET Row(k) ==
            LET G == EventsIn(events, k)
                device_count == CountDistinct({ r.entity_id : r \in G })
            IN  k @@
                [device_count |-> device_count,
                 entity_ids |-> { r.entity_id : r \in G },
                 first_event |-> Min({ r.event_timestamp : r \in G }),
                 last_event |-> Max({ r.event_timestamp : r \in G }),
                 is_high_activity |-> IsHighActivity(device_count),
                 activity_category |-> ActivityCategory(device_count)]
    IN  SetToBag({ Row(k) : k \in CellBuckets(events) })

----------------------------------------------------------------------------
(* The pipeline update *)

\* An update materializes the tables it selects one after the other, each
\* after the tables it reads; pc names the table materialized last.

\* table t is the one the running update has materialized last
Fresh(t) == pc = t

Refresh_Append(stored, computed) == stored (+) computed

\* a materialized view is replaced by what its query returns
Refresh(stored, computed) == computed

Init ==
    /\ pc = "location_events_silver"
    /\ location_events_silver = EmptyBag
    /\ co_presence_edges = EmptyBag
    /\ entity_case_overlap = EmptyBag
    /\ social_edges_silver = EmptyBag
    /\ suspect_rankings = EmptyBag
    /\ handoff_candidates = EmptyBag
    /\ cell_device_counts = EmptyBag
    /\ top_handoff = <<>>
    /\ previous_update = <<>>
    /\ sync_pc = "trigger"
    /\ results = <<>>
    /\ pending = {}
    /\ completed = {}
    /\ elapsed = 0
    /\ exit_value = ""

IngestEvent(feed, limit) ==
    /\ pc = "location_events_silver"
    /\ BagCardinality(location_events_silver) < limit
    /\ \E s \in feed :
         location_events_silver' = location_events_silver (+)
             Copies(SilverEvent(create_event(s.entity_id, s.dt, s.cell,
                                             s.cell.city, s.cell.state)), 1)
    /\ UNCHANGED <<pc, co_presence_edges, entity_case_overlap,
                   social_edges_silver, suspect_rankings, handoff_candidates,
                   cell_device_counts, top_handoff,
                   previous_update, syncVars>>

MaterializeCellDeviceCounts ==
    /\ pc = "location_events_silver"
    /\ cell_device_counts' = Refresh(cell_device_counts,
                                  CellDeviceCounts(location_events_silver))
    /\ pc' = "cell_device_counts"
    /\ UNCHANGED <<location_events_silver, co_presence_edges, entity_case_overlap,
                   social_edges_silver, suspect_rankings, handoff_candidates,
                   top_handoff, previous_update, syncVars>>

\* after: the table the update has materialized just before this one
MaterializeCoPresenceEdges(after) ==
    /\ pc = after
    /\ co_presence_edges' = Refresh(co_presence_edges,
                                 CoPresenceEdges(location_events_silver))
    /\ pc' = "co_presence_edges"
    /\ UNCHANGED <<location_events_silver, entity_case_overlap,
                   social_edges_silver, suspect_rankings, handoff_candidates,
                   cell_device_counts, top_handoff,
                   previous_update, syncVars>>

MaterializeHandoffCandidates ==
    /\ pc = "co_presence_edges"
    /\ handoff_candidates' = Refresh(handoff_candidates,
                                  HandoffCandidates(location_events_silver,
                                                    co_presence_edges))
    /\ pc' = "handoff_candidates"
    /\ UNCHANGED <<location_events_silver, co_presence_edges, entity_case_overlap,
                   social_edges_silver, suspect_rankings, cell_device_counts,
                   top_handoff, previous_update, syncVars>>

MaterializeEntityCaseOverlap(after) ==
    /\ pc = after
    /\ entity_case_overlap' = Refresh(entity_case_overlap,
                                   EntityCaseOverlap(location_events_silver,
                                                     cases_silver))
    /\ pc' = "entity_case_overlap"
    /\ UNCHANGED <<location_events_silver, co_presence_edges,
                   social_edges_silver, suspect_rankings, handoff_candidates,
                   cell_device_counts, top_handoff,
                   previous_update, syncVars>>

MaterializeSocialEdgesSilver ==
    /\ pc = "entity_case_overlap"
    /\ \E bronze \in SUBSET social_edges_bronze :
         social_edges_silver' = Refresh(social_edges_silver,
                                        SocialEdgesSilver(SetToBag(bronze)))
    /\ pc' = "social_edges_silver"
    /\ UNCHANGED <<location_events_silver, co_presence_edges,
                   entity_case_overlap, suspect_rankings, handoff_candidates,
                   cell_device_counts, top_handoff,
                   previous_update, syncVars>>

MaterializeSuspectRankings ==
    /\ pc = "social_edges_silver"
    /\ suspect_rankings' = Refresh(suspect_rankings,
                                SuspectRankings(entity_case_overlap,
                                                co_presence_edges,
                                                social_edges_silver))
    /\ pc' = "suspect_rankings"
    /\ UNCHANGED <<location_events_silver, co_presence_edges,
                   entity_case_overlap, social_edges_silver, handoff_candidates,
                   cell_device_counts, top_handoff,
                   previous_update, syncVars>>

\* validation check 6 reads the first of the rank-1 rows; Spark returns the
\* rows of a query without ORDER BY in no defined order
ValidateTopHandoff ==
    /\ pc = "suspect_rankings"
    /\ LET collected == { r \in Rows(handoff_candidates) : r.rank = 1 }
       IN  IF collected = {} THEN top_handoff' = <<>>
           ELSE \E handoff \in collected :
                    top_handoff' = << [old_entity_id |-> handoff.old_entity_id,
                                       new_entity_id |-> handoff.new_entity_id,
                                       handoff_score |-> handoff.handoff_score,
                                       rank |-> handoff.rank] >>
    /\ pc' = "check_6"
    /\ UNCHANGED <<location_events_silver, co_presence_edges, entity_case_overlap,
                   social_edges_silver, suspect_rankings, handoff_candidates,
                   cell_device_counts, previous_update, syncVars>>

\* the generator injects the story into the events of a population whose
\* DC residents are dc_population
GenerateStory ==
    /\ pc = "location_events_silver"
    /\ location_events_silver = EmptyBag
    /\ \E k \in 0..MaxPopulation, minutes \in StoryMinutes :
         LET dc_population == { PopulationId(i) : i \in 0..(k - 1) }
         IN  \E selected_dc_entities \in Sample(dc_population, Least(48, k)) :
             \E noise_entities \in
                    Sample(selected_dc_entities,
                           Least(DC_CELL_RECURRING_ENTITIES,
                                 Cardinality(selected_dc_entities))) :
             \E picks \in [noise_entities -> NoisePicks] :
                 location_events_silver' =
                     StoryEvents(selected_dc_entities, picks, minutes)
    /\ UNCHANGED <<pc, co_presence_edges, entity_case_overlap,
                   social_edges_silver, suspect_rankings, handoff_candidates,
                   cell_device_counts, top_handoff,
                   previous_update, syncVars>>

\* the next update starts; every table keeps its rows until the update
\* replaces them
StartUpdate(last) ==
    /\ pc = last
    /\ previous_update' =
         [location_events_silver |-> location_events_silver,
          social_edges_silver |-> social_edges_silver,
          co_presence_edges |-> co_presence_edges,
          entity_case_overlap |-> entity_case_overlap,
          suspect_rankings |-> suspect_rankings,
          handoff_candidates |-> handoff_candidates,
          cell_device_counts |-> cell_device_counts]
    /\ pc' = "location_events_silver"
    /\ UNCHANGED <<location_events_silver, co_presence_edges, entity_case_overlap,
                   social_edges_silver, suspect_rankings, handoff_candidates,
                   cell_device_counts, top_handoff, syncVars>>

\* the generator: the routines of the population, then the story
GenerateEvents ==
    /\ pc = "location_events_silver"
    /\ location_events_silver = EmptyBag
    /\ \E k \in 0..MaxPopulation, minutes \in StoryMinutes :
         LET dc_population == { PopulationId(i) : i \in 0..(k - 1) }
         IN  \E routine \in SUBSET RoutinePings(dc_population) :
             \E selected_dc_entities \in Sample(dc_population, Least(48, k)) :
             \E noise_entities \in
                    Sample(selected_dc_entities,
                           Least(DC_CELL_RECURRING_ENTITIES,
                                 Cardinality(selected_dc_entities))) :
             \E picks \in [noise_entities -> NoisePicks] :
                 location_events_silver' =
                     RoutineEvents(routine)
                     (+) StoryEvents(selected_dc_entities, picks, minutes)
    /\ UNCHANGED <<pc, co_presence_edges, entity_case_overlap,
                   social_edges_silver, suspect_rankings, handoff_candidates,
                   cell_device_counts, top_handoff, previous_update, syncVars>>

Next ==
    \/ IngestEvent(Feed, MaxEvents)
    \/ MaterializeCoPresenceEdges("location_events_silver")
    \/ MaterializeEntityCaseOverlap("co_presence_edges")
    \/ MaterializeSocialEdgesSilver
    \/ MaterializeSuspectRankings

Spec == Init /\ [][Next]_vars

\* the same update fed by a crowd in the DC incident cell
NextCrowd ==
    \/ IngestEvent(CrowdFeed, MaxCrowd)
    \/ MaterializeCoPresenceEdges("location_events_silver")
    \/ MaterializeEntityCaseOverlap("co_presence_edges")
    \/ MaterializeSocialEdgesSilver
    \/ MaterializeSuspectRankings

SpecCrowd == Init /\ [][NextCrowd]_vars

\* the same update fed by the suspects' visits to the burglary scenes
NextSeries ==
    \/ IngestEvent(SeriesFeed, MaxEvents)
    \/ MaterializeCoPresenceEdges("location_events_silver")
    \/ MaterializeEntityCaseOverlap("co_presence_edges")
    \/ MaterializeSocialEdgesSilver
    \/ MaterializeSuspectRankings

SpecSeries == Init /\ [][NextSeries]_vars

\* an update of every gold table, fed by the devices around the burner
\* switch, and the validation of its top handoff
NextHandoff ==
    \/ IngestEvent(HandoffFeed, MaxEvents)
    \/ MaterializeCellDeviceCounts
    \/ MaterializeCoPresenceEdges("cell_device_counts")
    \/ MaterializeHandoffCandidates
    \/ MaterializeEntityCaseOverlap("handoff_candidates")
    \/ MaterializeSocialEdgesSilver
    \/ MaterializeSuspectRankings
    \/ ValidateTopHandoff

SpecHandoff == Init /\ [][NextHandoff]_vars

\* an update of the handoff branch, fed by devices that meet in two cells
NextPartners ==
    \/ IngestEvent(PartnerFeed, MaxPartnerEvents)
    \/ MaterializeCoPresenceEdges("location_events_silver")
    \/ MaterializeHandoffCandidates

SpecPartners == Init /\ [][NextPartners]_vars

\* the ranking branch of an update over the generated story
NextStory ==
    \/ GenerateStory
    \/ MaterializeCoPresenceEdges("location_events_silver")
    \/ MaterializeEntityCaseOverlap("co_presence_edges")
    \/ MaterializeSocialEdgesSilver
    \/ MaterializeSuspectRankings

SpecStory == Init /\ [][NextStory]_vars

\* an update of every gold table over few events or none
NextSparse ==
    \/ IngestEvent(SparseFeed, MaxEvents)
    \/ MaterializeCellDeviceCounts
    \/ MaterializeCoPresenceEdges("cell_device_counts")
    \/ MaterializeHandoffCandidates
    \/ MaterializeEntityCaseOverlap("handoff_candidates")
    \/ MaterializeSocialEdgesSilver
    \/ MaterializeSuspectRankings

SpecSparse == Init /\ [][NextSparse]_vars

\* update after update of every gold table, with events arriving in between
NextRerun ==
    \/ IngestEvent(RerunFeed, MaxRerunEvents)
    \/ MaterializeCellDeviceCounts
    \/ MaterializeCoPresenceEdges("cell_device_counts")
    \/ MaterializeHandoffCandidates
    \/ MaterializeEntityCaseOverlap("handoff_candidates")
    \/ MaterializeSocialEdgesSilver
    \/ MaterializeSuspectRankings
    \/ StartUpdate("suspect_rankings")

SpecRerun == Init /\ [][NextRerun]_vars

\* the generated events and the device counts of their cells
NextGenerator ==
    \/ GenerateEvents
    \/ MaterializeCellDeviceCounts

SpecGenerator == Init /\ [][NextGenerator]_vars

\* an update of cell_device_counts alone, fed by the population
NextDensity ==
    \/ IngestEvent(PopulationFeed, MaxDevices)
    \/ MaterializeCellDeviceCounts

SpecDensity == Init /\ [][NextDensity]_vars

----------------------------------------------------------------------------
(* The Lakebase sync trigger (src/pipelines/trigger_lakebase_sync.py) *)

SYNCED_TABLE_NAMES ==
    << "cases_silver", "location_events_silver", "social_edges_silver",
       "person_device_links_silver", "persons_silver", "suspect_rankings",
       "co_presence_edges", "entity_case_overlap", "cell_device_counts",
       "evidence_card_data", "handoff_candidates",
       "case_summary_with_suspects" >>

\* the tables the notebook goes through
SyncedTables ==
    SubSeq(SYNCED_TABLE_NAMES, 1, Least(MaxTables, Len(SYNCED_TABLE_NAMES)))

MAX_WAIT_SECONDS == 600
POLL_INTERVAL == 15

\* what the trigger of one table's refresh can come to: the synced table has
\* no pipeline, the update starts, or a call raises
TriggerOutcomes == {"skipped", "triggered", "failed"}

\* what a poll of one table can observe: a detailed_state, "UNKNOWN" where
\* the table has no synchronization status, or a call that raises
Observations ==
    {"ONLINE", "ACTIVE", "FAILED", "ERROR", "PROVISIONING", "UNKNOWN",
     "exception"}

\* the variables of the pipeline and of its validation
pipelineVars ==
    <<pc, location_events_silver, co_presence_edges, entity_case_overlap,
      social_edges_silver, suspect_rankings, handoff_candidates,
      cell_device_counts, top_handoff, previous_update>>

\* one turn of the trigger loop
TriggerRefresh ==
    /\ sync_pc = "trigger"
    /\ Len(results) < Len(SyncedTables)
    /\ \E outcome \in TriggerOutcomes :
         results' = Append(results,
             [table |-> SyncedTables[Len(results) + 1],
              status |-> outcome,
              error |-> CASE outcome = "skipped" -> "no pipeline_id"
                          [] outcome = "triggered" -> "None"
                          [] OTHER -> "error_msg"])
    /\ UNCHANGED <<sync_pc, pending, completed, elapsed, exit_value, pipelineVars>>

\* the trigger loop is over: the wait loop starts with the triggered tables,
\* or there is nothing to wait for
BeginWait ==
    /\ sync_pc = "trigger"
    /\ Len(results) = Len(SyncedTables)
    /\ LET triggered == { i \in DOMAIN results : results[i].status = "triggered" }
       IN  IF triggered = {}
           THEN /\ sync_pc' = "summary"
                /\ UNCHANGED <<pending, completed, elapsed>>
           ELSE /\ sync_pc' = "wait"
                /\ pending' = { results[i].table : i \in triggered }
                /\ completed' = {}
                /\ elapsed' = 0
    /\ UNCHANGED <<results, exit_value, pipelineVars>>

IsComplete(state) == state \in {"ONLINE", "ACTIVE"}

IsFailed(state) == state \in {"FAILED", "ERROR"}

\* one turn of the wait loop: sleep, then poll every pending table
Poll ==
    /\ sync_pc = "wait"
    /\ pending # {}
    /\ elapsed < MAX_WAIT_SECONDS
    /\ elapsed' = elapsed + POLL_INTERVAL
    /\ \E state \in [pending -> Observations] :
         LET complete == { t \in pending : IsComplete(state[t]) }
             failed == { t \in pending : ~IsComplete(state[t]) /\ IsFailed(state[t]) }
         IN  /\ completed' = completed \cup complete \cup failed
             /\ pending' = pending \ (complete \cup failed)
             /\ results' =
                  [i \in DOMAIN results |->
                     IF results[i].table \in failed
                     THEN [results[i] EXCEPT !.status = "failed",
                                             !.error = "message"]
                     ELSE results[i]]
    /\ UNCHANGED <<sync_pc, exit_value, pipelineVars>>

\* the wait loop ends: nothing is pending, or the time is up
EndWait ==
    /\ sync_pc = "wait"
    /\ ~(pending # {} /\ elapsed < MAX_WAIT_SECONDS)
    /\ sync_pc' = "summary"
    /\ UNCHANGED <<results, pending, completed, elapsed, exit_value, pipelineVars>>

Summary ==
    /\ sync_pc = "summary"
    /\ LET failed_count ==
               Cardinality({ i \in DOMAIN results : results[i].status = "failed" })
       IN  exit_value' = IF failed_count > 0 THEN "FAILED" ELSE "SUCCESS"
    /\ sync_pc' = "done"
    /\ UNCHANGED <<results, pending, completed, elapsed, pipelineVars>>

NextSync ==
    \/ TriggerRefresh
    \/ BeginWait
    \/ Poll
    \/ EndWait
    \/ Summary

SpecSync == Init /\ [][NextSync]_vars

----------------------------------------------------------------------------
(* Properties of the Co-Presence Engine *)

\* some event of a and some event of b share the (h3_cell, time_bucket) in cell
CoLocatedIn(a, b, cell) ==
    \E r1, r2 \in Rows(location_events_silver) :
        /\ r1.entity_id = a /\ r2.entity_id = b
        /\ r1.h3_cell = cell /\ r2.h3_cell = cell
        /\ r1.time_bucket = r2.time_bucket

CoLocated(a, b) == \E r \in Rows(location_events_silver) : CoLocatedIn(a, b, r.h3_cell)

\* the number of rows of co_presence_edges that join a and b, in either order
EdgeRowsBetween(a, b) ==
    SumFn([r \in { x \in Rows(co_presence_edges) :
                     \/ x.entity_id_1 = a /\ x.entity_id_2 = b
                     \/ x.entity_id_1 = b /\ x.entity_id_2 = a } |->
              co_presence_edges[r]])

\* C1: co_presence_edges holds exactly one row for every unordered pair of
\* distinct entities that share at least one (h3_cell, time_bucket), no row
\* for any other pair, and no row in reversed order.
C1_OneEdgePerPair ==
    Fresh("co_presence_edges") =>
        /\ \A a, b \in EntityIds :
             a # b => EdgeRowsBetween(a, b) = (IF CoLocated(a, b) THEN 1 ELSE 0)
        /\ \A r \in Rows(co_presence_edges) : StrLess(r.entity_id_1, r.entity_id_2)

\* C2: for entity_id_1 < entity_id_2, an edge row for (entity_id_1,
\* entity_id_2, h3_cell) exists if and only if some event of each of the two
\* entities has that h3_cell and the same time_bucket; every edge row has
\* entity_id_1 strictly less than entity_id_2, so there is no self-pair.
C2_EdgeIffCoLocated ==
    Fresh("co_presence_edges") =>
        /\ \A r \in Rows(co_presence_edges) :
             /\ StrLess(r.entity_id_1, r.entity_id_2)
             /\ r.entity_id_1 # r.entity_id_2
             /\ CoLocatedIn(r.entity_id_1, r.entity_id_2, r.h3_cell)
        /\ \A a, b \in EntityIds : \A e \in Rows(location_events_silver) :
             (StrLess(a, b) /\ CoLocatedIn(a, b, e.h3_cell)) =>
                 \E r \in Rows(co_presence_edges) :
                     /\ r.entity_id_1 = a /\ r.entity_id_2 = b
                     /\ r.h3_cell = e.h3_cell

\* two entities meet in one cell and miss each other, by the bucket, in the
\* same cell or, by the cell, in the same bucket
C2_Witness ==
    /\ Fresh("co_presence_edges")
    /\ co_presence_edges # EmptyBag
    /\ \E r1, r2 \in Rows(location_events_silver) :
         /\ r1.entity_id # r2.entity_id
         /\ r1.h3_cell = r2.h3_cell
         /\ r1.time_bucket # r2.time_bucket
         /\ ~CoLocated(r1.entity_id, r2.entity_id)
    /\ \E r1, r2 \in Rows(location_events_silver) :
         /\ r1.entity_id # r2.entity_id
         /\ r1.h3_cell # r2.h3_cell
         /\ r1.time_bucket = r2.time_bucket
         /\ ~CoLocated(r1.entity_id, r2.entity_id)

\* C3: every edge has weight = min(1.0, co_occurrence_count / 5.0): the
\* weight lies in (0, 1], does not decrease as the count grows, and is
\* exactly 1.0 from count 5 on.
C3_WeightSaturates ==
    Fresh("co_presence_edges") =>
        /\ \A r \in Rows(co_presence_edges) :
             /\ r.weight > 0 /\ r.weight <= 1 * Milli
             /\ r.co_occurrence_count < 5 => r.weight * 5 = r.co_occurrence_count * Milli
             /\ r.co_occurrence_count >= 5 => r.weight = 1 * Milli
        /\ \A r1, r2 \in Rows(co_presence_edges) :
             r1.co_occurrence_count <= r2.co_occurrence_count => r1.weight <= r2.weight

\* edges below the saturation count, at it and above it, side by side
C3_Witness ==
    /\ Fresh("co_presence_edges")
    /\ \E r1, r2 \in Rows(co_presence_edges) :
         /\ r1.co_occurrence_count < 5 /\ r1.weight < 1 * Milli
         /\ r2.co_occurrence_count > 5 /\ r2.weight = 1 * Milli

\* C4: no two rows of co_presence_edges carry the same edge_id.
C4_EdgeIdIsKey ==
    Fresh("co_presence_edges") =>
        \A r1, r2 \in Rows(co_presence_edges) :
            /\ co_presence_edges[r1] = 1
            /\ r1.edge_id = r2.edge_id => r1 = r2

\* the number of events entity e has in cell in time bucket b
EventCount(e, cell, b) ==
    SumFn([ev \in { x \in Rows(location_events_silver) :
                      x.entity_id = e /\ x.h3_cell = cell /\ x.time_bucket = b }
           |-> location_events_silver[ev]])

\* the time buckets in which both a and b have an event in cell
SharedBuckets(a, b, cell) ==
    { ev.time_bucket : ev \in { x \in Rows(location_events_silver) :
                                  /\ x.h3_cell = cell
                                  /\ EventCount(a, cell, x.time_bucket) > 0
                                  /\ EventCount(b, cell, x.time_bucket) > 0 } }

\* C28: on every co-presence edge time_bucket_count is the number of time
\* buckets the two entities share in the cell, at least 1, and
\* co_occurrence_count is the number of pairs of their events in a shared
\* bucket, at least time_bucket_count and equal to it when neither entity
\* has two events in one bucket of the cell.
C28_CountsPairsNotBuckets ==
    Fresh("co_presence_edges") =>
        \A r \in Rows(co_presence_edges) :
            LET shared == SharedBuckets(r.entity_id_1, r.entity_id_2, r.h3_cell)
                pairs == SumFn([b \in shared |->
                                  EventCount(r.entity_id_1, r.h3_cell, b)
                                  * EventCount(r.entity_id_2, r.h3_cell, b)])
            IN  /\ r.time_bucket_count = Cardinality(shared)
                /\ r.time_bucket_count >= 1
                /\ r.co_occurrence_count >= r.time_bucket_count
                /\ r.co_occurrence_count = pairs
                /\ (\A b \in shared :
                       /\ EventCount(r.entity_id_1, r.h3_cell, b) = 1
                       /\ EventCount(r.entity_id_2, r.h3_cell, b) = 1) =>
                       r.co_occurrence_count = r.time_bucket_count

C28_Witness ==
    /\ Fresh("co_presence_edges")
    /\ \E r \in Rows(co_presence_edges) :
           r.time_bucket_count = 2 /\ r.co_occurrence_count = 3
    /\ \E r \in Rows(co_presence_edges) :
           r.time_bucket_count = 1 /\ r.co_occurrence_count = 1

----------------------------------------------------------------------------
(* Properties of the Entity-Case Overlap Resolver *)

Matches(event, case) ==
    /\ event.h3_cell = case.h3_cell
    /\ event.time_bucket = case.incident_time_bucket

\* the number of rows of entity_case_overlap for entity e and case c
OverlapRowsOf(e, c) ==
    SumFn([r \in { x \in Rows(entity_case_overlap) :
                     x.entity_id = e /\ x.case_id = c } |->
              entity_case_overlap[r]])

\* C5: (entity_id, case_id) is a unique key of entity_case_overlap: an
\* entity that meets a case's join has a single row for that case.
C5_OverlapKey ==
    Fresh("entity_case_overlap") =>
        \A e \in EntityIds : \A c \in Rows(cases_silver) :
            OverlapRowsOf(e, c.case_id) <= 1

\* C6: an event in a case's h3_cell and incident_time_bucket links its
\* entity to the case whatever its timestamp; the row's in_exact_window is
\* true exactly when the timestamp lies in [incident_start, incident_end],
\* and no matching (event, case) pair goes without its row.
C6_BucketMatchLinks ==
    Fresh("entity_case_overlap") =>
        /\ \A e \in Rows(location_events_silver) : \A c \in Rows(cases_silver) :
             Matches(e, c) =>
                 \E r \in Rows(entity_case_overlap) :
                     /\ r.entity_id = e.entity_id
                     /\ r.case_id = c.case_id
                     /\ r.event_timestamp = e.event_timestamp
                     /\ r.in_exact_window <=>
                            (/\ c.incident_start_ts <= e.event_timestamp
                             /\ e.event_timestamp <= c.incident_end_ts)
        /\ \A r \in Rows(entity_case_overlap) :
             /\ r.in_exact_window \in BOOLEAN
             /\ \E e \in Rows(location_events_silver) : \E c \in Rows(cases_silver) :
                  /\ Matches(e, c)
                  /\ r.entity_id = e.entity_id /\ r.case_id = c.case_id
                  /\ r.event_timestamp = e.event_timestamp
        /\ BagCardinality(entity_case_overlap) =
               SumFn([p \in { q \in Rows(location_events_silver) \X Rows(cases_silver) :
                                Matches(q[1], q[2]) } |->
                         location_events_silver[p[1]] * cases_silver[p[2]]])

\* one case linked by an event inside the exact window and by one outside it
C6_Witness ==
    /\ Fresh("entity_case_overlap")
    /\ \E r1, r2 \in Rows(entity_case_overlap) :
         /\ r1.case_id = r2.case_id
         /\ r1.in_exact_window
         /\ ~r2.in_exact_window

----------------------------------------------------------------------------
(* Properties of the Suspect Ranking Engine *)

\* the burglary cases an entity has an event in the cell and bucket of
BurglaryCasesOf(e) ==
    { c \in Rows(cases_silver) :
        /\ c.case_type = "burglary"
        /\ \E ev \in Rows(location_events_silver) :
             ev.entity_id = e /\ Matches(ev, c) }

RankingRowsOf(e) ==
    SumFn([r \in { x \in Rows(suspect_rankings) : x.entity_id = e } |->
              suspect_rankings[r]])

\* the sum of the weights of the rows of edges that have e as an endpoint
WeightAround(edges, e) ==
    SumFn([r \in { x \in Rows(edges) : x.entity_id_1 = e \/ x.entity_id_2 = e } |->
              r.weight * edges[r]])

HasEdge(edges, e) ==
    \E r \in Rows(edges) : r.entity_id_1 = e \/ r.entity_id_2 = e

\* C7: suspect_rankings has exactly one row for each entity with at least
\* one burglary overlap and no row for any other entity, no row has
\* unique_cases = 0, and an entity without co-presence edge and without
\* social edge has its row with both total weights 0.
C7_OneRowPerBurglaryEntity ==
    Fresh("suspect_rankings") =>
        /\ \A e \in EntityIds :
             RankingRowsOf(e) = (IF BurglaryCasesOf(e) # {} THEN 1 ELSE 0)
        /\ \A r \in Rows(suspect_rankings) :
             /\ r.entity_id \in EntityIds
             /\ r.unique_cases # 0
             /\ ~HasEdge(co_presence_edges, r.entity_id) => r.total_copresence_weight = 0
             /\ ~HasEdge(social_edges_silver, r.entity_id) => r.total_social_weight = 0

\* a ranked entity with no edge of either kind, next to an entity that has
\* events but no burglary overlap
C7_Witness ==
    /\ Fresh("suspect_rankings")
    /\ \E r \in Rows(suspect_rankings) :
         /\ ~HasEdge(co_presence_edges, r.entity_id)
         /\ ~HasEdge(social_edges_silver, r.entity_id)
    /\ \E ev \in Rows(location_events_silver) : RankingRowsOf(ev.entity_id) = 0
    /\ \E r \in Rows(entity_case_overlap) : RankingRowsOf(r.entity_id) = 0

\* C8: unique_cases is the number of distinct burglary cases the entity
\* overlaps and recurrence_score is 0.4 * unique_cases, however many overlap
\* rows a case has.
C8_RecurrenceCountsDistinctCases ==
    Fresh("suspect_rankings") =>
        \A r \in Rows(suspect_rankings) :
            /\ r.unique_cases = Cardinality(BurglaryCasesOf(r.entity_id))
            /\ r.recurrence_score * 10 = 4 * Micro * Cardinality(BurglaryCasesOf(r.entity_id))

\* a ranked entity with more overlap rows than cases, over two cases or more
C8_Witness ==
    /\ Fresh("suspect_rankings")
    /\ \E r \in Rows(suspect_rankings) :
         /\ r.case_count > r.unique_cases
         /\ r.unique_cases >= 2

\* C9: cross_jurisdiction_score is 0.35 when the entity's burglary overlaps
\* span more than one state and 0 otherwise, the same for 2 states as for more.
C9_CrossJurisdictionBinary ==
    Fresh("suspect_rankings") =>
        \A r \in Rows(suspect_rankings) :
            LET states == { c.state : c \in BurglaryCasesOf(r.entity_id) }
            IN  r.cross_jurisdiction_score * 100 =
                    (IF Cardinality(states) > 1 THEN 35 * Micro ELSE 0)

\* an entity seen in three states next to an entity seen in one
C9_Witness ==
    /\ Fresh("suspect_rankings")
    /\ \E r1, r2 \in Rows(suspect_rankings) :
         /\ r1.states_count = 3 /\ r1.cross_jurisdiction_score > 0
         /\ r2.states_count = 1 /\ r2.cross_jurisdiction_score = 0

\* C10: network_score = min(0.25, 0.1 * total_copresence_weight + 0.15 *
\* total_social_weight), each total being the sum of the weights of the
\* edges the entity is an endpoint of; it never exceeds 0.25.
C10_NetworkScoreCapped ==
    Fresh("suspect_rankings") =>
        \A r \in Rows(suspect_rankings) :
            LET tcw == WeightAround(co_presence_edges, r.entity_id)
                tsw == WeightAround(social_edges_silver, r.entity_id)
                sum == 100 * tcw + 150 * tsw
            IN  /\ r.total_copresence_weight = tcw
                /\ r.total_social_weight = tsw
                /\ r.network_score * 4 <= Micro
                /\ sum * 4 <= Micro => r.network_score = sum
                /\ sum * 4 > Micro => r.network_score * 4 = Micro

\* a capped entity next to an uncapped one that is first endpoint of one
\* co-presence edge and second endpoint of another
C10_Witness ==
    /\ Fresh("suspect_rankings")
    /\ \E r1, r2 \in Rows(suspect_rankings) :
         /\ 100 * r1.total_copresence_weight + 150 * r1.total_social_weight > 250000
         /\ r1.total_copresence_weight > 0
         /\ r2.network_score > 0 /\ r2.network_score < 250000
         /\ r2.total_social_weight > 0
         /\ \E x, y \in Rows(co_presence_edges) :
              x.entity_id_1 = r2.entity_id /\ y.entity_id_2 = r2.entity_id

\* C11: total_score is recurrence_score + cross_jurisdiction_score +
\* network_score; an entity linked to exactly 3 distinct burglary cases in 2
\* states, with no co-presence weight and no social weight, has recurrence
\* 1.2, cross-jurisdiction 0.35, network 0 and total 1.55.
C11_TotalScoreIsSum ==
    Fresh("suspect_rankings") =>
        \A r \in Rows(suspect_rankings) :
            LET cases == BurglaryCasesOf(r.entity_id)
            IN  /\ r.total_score = r.recurrence_score + r.cross_jurisdiction_score
                                     + r.network_score
                /\ ( /\ Cardinality(cases) = 3
                     /\ Cardinality({ c.state : c \in cases }) = 2
                     /\ WeightAround(co_presence_edges, r.entity_id) = 0
                     /\ WeightAround(social_edges_silver, r.entity_id) = 0 )
                   => /\ r.recurrence_score = 1200000
                      /\ r.cross_jurisdiction_score = 350000
                      /\ r.network_score = 0
                      /\ r.total_score = 1550000

\* an entity alone at three burglary scenes in two states, without social
\* edge, next to an entity whose network score is not 0
C11_Witness ==
    /\ Fresh("suspect_rankings")
    /\ \E r \in Rows(suspect_rankings) :
         /\ Cardinality(BurglaryCasesOf(r.entity_id)) = 3
         /\ Cardinality({ c.state : c \in BurglaryCasesOf(r.entity_id) }) = 2
         /\ ~HasEdge(co_presence_edges, r.entity_id)
         /\ ~HasEdge(social_edges_silver, r.entity_id)
         /\ r.total_score = 1550000
    /\ \E r \in Rows(suspect_rankings) : r.network_score > 0

\* the rank column of table is the dense rank of column score, descending
IsDenseRank(table, score) ==
    LET k == Cardinality({ r[score] : r \in Rows(table) })
    IN  /\ \A r1, r2 \in Rows(table) :
             /\ r1[score] = r2[score] => r1.rank = r2.rank
             /\ r1[score] > r2[score] => r1.rank < r2.rank
        /\ { r.rank : r \in Rows(table) } = 1..k
        /\ Rows(table) # {} => \E r \in Rows(table) : r.rank = 1

\* C12: in suspect_rankings (by total_score) and in handoff_candidates (by
\* handoff_score) rows of equal score have equal rank, a strictly higher
\* score has a strictly smaller rank, the ranks used are exactly 1..k for k
\* distinct scores, and a non-empty table has a rank 1.
C12_RankIsDense ==
    Fresh("suspect_rankings") =>
        /\ IsDenseRank(suspect_rankings, "total_score")
        /\ IsDenseRank(handoff_candidates, "handoff_score")

\* two suspects of different rank next to two handoff candidates of equal rank
C12_Witness ==
    /\ Fresh("suspect_rankings")
    /\ \E r1, r2 \in Rows(suspect_rankings) : r1.rank = 1 /\ r2.rank = 2
    /\ \E r1, r2 \in Rows(handoff_candidates) : r1 # r2 /\ r1.rank = r2.rank

----------------------------------------------------------------------------
(* Properties of the Handoff Detection Engine *)

BucketsOf(e, cell) ==
    { ToTimestamp(ev.time_bucket) :
        ev \in { x \in Rows(location_events_silver) :
                   x.entity_id = e /\ x.h3_cell = cell } }

SeenIn(e, cell) == BucketsOf(e, cell) # {}

\* minutes from the last bucket of old in cell to the first bucket of new in cell
GapIn(old, new, cell) == Min(BucketsOf(new, cell)) - Max(BucketsOf(old, cell))

CandidateRows(old, new, cell) ==
    { r \in Rows(handoff_candidates) :
        r.old_entity_id = old /\ r.new_entity_id = new /\ r.h3_cell = cell }

SeenEntities == { ev.entity_id : ev \in Rows(location_events_silver) }
SeenCells == { ev.h3_cell : ev \in Rows(location_events_silver) }

\* C13: every row of handoff_candidates has 0 < time_diff_minutes <= 30,
\* measured from the old entity's last time bucket in the cell to the new
\* entity's first time bucket in the same cell; a pair whose gap is 0,
\* negative or above 30 minutes has no row.
C13_GapWithinWindow ==
    Fresh("handoff_candidates") =>
        /\ \A r \in Rows(handoff_candidates) :
             /\ r.time_diff_minutes > 0 /\ r.time_diff_minutes <= 30
             /\ SeenIn(r.old_entity_id, r.h3_cell) /\ SeenIn(r.new_entity_id, r.h3_cell)
             /\ r.time_diff_minutes = GapIn(r.old_entity_id, r.new_entity_id, r.h3_cell)
        /\ \A old, new \in SeenEntities : \A cell \in SeenCells :
             (SeenIn(old, cell) /\ SeenIn(new, cell)
              /\ (GapIn(old, new, cell) <= 0 \/ GapIn(old, new, cell) > 30))
               => CandidateRows(old, new, cell) = {}

\* a candidate 30 minutes apart next to pairs 45, 0 and -15 minutes apart
C13_Witness ==
    /\ Fresh("handoff_candidates")
    /\ \E r \in Rows(handoff_candidates) : r.time_diff_minutes = 30
    /\ \E old, new \in SeenEntities : \E cell \in SeenCells :
         SeenIn(old, cell) /\ SeenIn(new, cell) /\ GapIn(old, new, cell) = 45
    /\ \E old, new \in SeenEntities : \E cell \in SeenCells :
         old # new /\ SeenIn(old, cell) /\ SeenIn(new, cell) /\ GapIn(old, new, cell) = 0
    /\ \E old, new \in SeenEntities : \E cell \in SeenCells :
         SeenIn(old, cell) /\ SeenIn(new, cell) /\ GapIn(old, new, cell) = -15

\* C14: handoff_score = spatial_score + temporal_score + partner_score and
\* lies in [0.5, 1.0]; spatial_score is always 0.5; partner_score is 0.2
\* exactly when shared_partner_count > 0 and 0 otherwise.
C14_HandoffScoreComposition ==
    Fresh("handoff_candidates") =>
        \A r \in Rows(handoff_candidates) :
            /\ r.handoff_score = r.spatial_score + r.temporal_score + r.partner_score
            /\ r.handoff_score * 2 >= Micro /\ r.handoff_score <= Micro
            /\ r.spatial_score * 2 = Micro
            /\ r.partner_score * 5 = (IF r.shared_partner_count > 0 THEN Micro ELSE 0)

\* a candidate with a shared partner and the full score
C14_Witness ==
    /\ Fresh("handoff_candidates")
    /\ \E r \in Rows(handoff_candidates) :
         /\ r.shared_partner_count > 0
         /\ r.partner_score = 200000
         /\ r.handoff_score = 1000000

\* the (entity, cell, bucket timestamp) triples that have an event
Sighted ==
    { <<ev.entity_id, ev.h3_cell, ToTimestamp(ev.time_bucket)>> :
        ev \in Rows(location_events_silver) }

\* s1 and s2 together in cell at t1; s2 and b1, without s1, in cell one bucket later
SwitchScenario(s1, s2, b1, cell, t1) ==
    Sighted = { <<s1, cell, t1>>, <<s2, cell, t1>>,
                <<s2, cell, t1 + TIME_BUCKET_MINUTES>>,
                <<b1, cell, t1 + TIME_BUCKET_MINUTES>> }

\* C15: with S1 and S2 together in a cell at bucket T1, and B1 with S2 but
\* without S1 in that cell at T1 + 15 minutes, the rank-1 candidate is
\* (old S1, new B1) with temporal_score 0.3, partner_score 0.2 and
\* handoff_score 1.0, and neither (S1, S2) nor (S2, B1) is a candidate.
C15_SwitchIsTopCandidate ==
    Fresh("handoff_candidates") =>
        \A s1, s2, b1 \in EntityIds : \A cell \in SeenCells :
            \A t1 \in { DC_INCIDENT, BURNER_SWITCH, CONTINUATION_1 } :
                (Cardinality({s1, s2, b1}) = 3 /\ SwitchScenario(s1, s2, b1, cell, t1))
                  => /\ \E r \in Rows(handoff_candidates) : r.rank = 1
                     /\ \A r \in Rows(handoff_candidates) :
                          r.rank = 1 =>
                            /\ r.old_entity_id = s1 /\ r.new_entity_id = b1
                            /\ r.h3_cell = cell
                            /\ r.temporal_score = 300000
                            /\ r.partner_score = 200000
                            /\ r.handoff_score = 1000000
                     /\ CandidateRows(s1, s2, cell) = {}
                     /\ CandidateRows(s2, b1, cell) = {}

\* the burner switch of the demo story: E_0412 and E_1098 at the DC incident,
\* E_7734 and E_1098 one bucket later
C15_Witness ==
    /\ Fresh("handoff_candidates")
    /\ SwitchScenario(SUSPECT_1_ID, SUSPECT_2_ID, BURNER_ENTITY_ID,
                      DC_CELL.h3, DC_INCIDENT)
    /\ handoff_candidates # EmptyBag

\* C17: a pair (old, new) is a candidate for cell c only if old # new and
\* both have an event in that same cell c; an entity that appears only in
\* another cell, like the decoy in the adjacent cell, is no successor for c.
C17_SameCellOnly ==
    Fresh("handoff_candidates") =>
        /\ \A r \in Rows(handoff_candidates) :
             /\ r.old_entity_id # r.new_entity_id
             /\ \E ev \in Rows(location_events_silver) :
                  ev.entity_id = r.old_entity_id /\ ev.h3_cell = r.h3_cell
             /\ \E ev \in Rows(location_events_silver) :
                  ev.entity_id = r.new_entity_id /\ ev.h3_cell = r.h3_cell
        /\ ~SeenIn(DECOY_ENTITY_ID, DC_CELL.h3) =>
             \A r \in Rows(handoff_candidates) :
                 r.h3_cell = DC_CELL.h3 => r.new_entity_id # DECOY_ENTITY_ID

\* the decoy appears in the adjacent cell in the bucket in which the burner
\* succeeds Suspect 1 in the DC incident cell
C17_Witness ==
    /\ Fresh("handoff_candidates")
    /\ <<DECOY_ENTITY_ID, DC_ADJACENT_CELL.h3, BURNER_SWITCH>> \in Sighted
    /\ ~SeenIn(DECOY_ENTITY_ID, DC_CELL.h3)
    /\ CandidateRows(SUSPECT_1_ID, BURNER_ENTITY_ID, DC_CELL.h3) # {}
    /\ \A r \in Rows(handoff_candidates) : r.new_entity_id # DECOY_ENTITY_ID

\* a co-presence edge joins a and b, in either order, in some cell
EdgeBetween(a, b) ==
    \E r \in Rows(co_presence_edges) :
        \/ r.entity_id_1 = a /\ r.entity_id_2 = b
        \/ r.entity_id_1 = b /\ r.entity_id_2 = a

\* C16: shared_partner_count is the number of distinct entities P that have
\* a co-presence edge to the old entity and a co-presence edge to the new
\* entity, whatever the number of cells those edges occur in.
C16_SharedPartnersAreDistinct ==
    Fresh("handoff_candidates") =>
        \A r \in Rows(handoff_candidates) :
            r.shared_partner_count =
                Cardinality({ P \in SeenEntities :
                                /\ EdgeBetween(r.old_entity_id, P)
                                /\ EdgeBetween(r.new_entity_id, P) })

\* C18: on one input, the (old, new) pair that validation check 6 reads from
\* the rank = 1 row of handoff_candidates is the same on every run: no other
\* order of the rows would have produced another pair.
C18_TopHandoffReproducible ==
    Fresh("check_6") =>
        \A r \in Rows(handoff_candidates) :
            r.rank = 1 =>
                /\ top_handoff # <<>>
                /\ r.old_entity_id = top_handoff[1].old_entity_id
                /\ r.new_entity_id = top_handoff[1].new_entity_id

\* C26: the old entity of a handoff candidate has no location event, in
\* any cell, in a time bucket later than old_last_bucket.
C26_OldEntityHasDisappeared ==
    Fresh("handoff_candidates") =>
        \A r \in Rows(handoff_candidates) :
            \A ev \in Rows(location_events_silver) :
                ev.entity_id = r.old_entity_id =>
                    BucketLeq(ev.time_bucket, r.old_last_bucket)

\* C27: temporal_score is 0.3 for a gap of at most 15 minutes and 0.2 for
\* a longer gap of at most 30 minutes; no row has temporal_score 0.1, for
\* no row has a gap of more than 30 minutes.
C27_TemporalTiers ==
    Fresh("handoff_candidates") =>
        \A r \in Rows(handoff_candidates) :
            /\ r.time_diff_minutes <= 15 => r.temporal_score = 300000
            /\ (r.time_diff_minutes > 15 /\ r.time_diff_minutes <= 30) =>
                   r.temporal_score = 200000
            /\ r.temporal_score # 100000

C27_Witness ==
    /\ Fresh("handoff_candidates")
    /\ \E r \in Rows(handoff_candidates) :
           r.time_diff_minutes = 15 /\ r.temporal_score = 300000
    /\ \E r \in Rows(handoff_candidates) :
           r.time_diff_minutes = 30 /\ r.temporal_score = 200000
    /\ \E old, new \in SeenEntities, cell \in SeenCells :
           /\ SeenIn(old, cell) /\ SeenIn(new, cell)
           /\ GapIn(old, new, cell) = 45
           /\ CandidateRows(old, new, cell) = {}

\* C29: handoff_candidates has at most one row for an (old_entity_id,
\* new_entity_id, h3_cell) triple.
C29_HandoffKeyIsUnique ==
    Fresh("handoff_candidates") =>
        \A r1, r2 \in Rows(handoff_candidates) :
            (/\ r1.old_entity_id = r2.old_entity_id
             /\ r1.new_entity_id = r2.new_entity_id
             /\ r1.h3_cell = r2.h3_cell) =>
                r1 = r2 /\ handoff_candidates[r1] = 1

C29_Witness ==
    /\ Fresh("handoff_candidates")
    /\ \E r \in Rows(handoff_candidates) :
           /\ r.shared_partner_count >= 1
           /\ \E p \in r.shared_partners :
                  Cardinality(BucketsOf(p, r.h3_cell)) >= 2

----------------------------------------------------------------------------
(* Properties of the Cell Aggregation Engine *)

\* the distinct entities with an event in the group of row r
DevicesIn(r) ==
    { ev.entity_id :
        ev \in { x \in Rows(location_events_silver) :
                   /\ x.h3_cell = r.h3_cell /\ x.time_bucket = r.time_bucket
                   /\ x.city = r.city /\ x.state = r.state } }

\* C20: activity_category follows device_count, the number of distinct
\* entities of the (h3_cell, time_bucket, city, state) group: 40 or more is
\* very_high, 20..39 high, 10..19 medium, below 10 low; 20 devices are high
\* and 19 medium; repeated events of one entity do not raise the count.
C20_ActivityCategoryThresholds ==
    Fresh("cell_device_counts") =>
        \A r \in Rows(cell_device_counts) :
            LET n == Cardinality(DevicesIn(r))
            IN  /\ r.device_count = n
                /\ n >= 40 => r.activity_category = "very_high"
                /\ (n >= 20 /\ n <= 39) => r.activity_category = "high"
                /\ (n >= 10 /\ n <= 19) => r.activity_category = "medium"
                /\ n < 10 => r.activity_category = "low"
                /\ n = 20 => r.activity_category = "high"
                /\ n = 19 => r.activity_category = "medium"

\* exactly 20 devices in a group that holds more than 20 events
C20_Witness ==
    /\ Fresh("cell_device_counts")
    /\ \E r \in Rows(cell_device_counts) :
         /\ r.device_count = 20
         /\ r.activity_category = "high"
         /\ BagCardinality(location_events_silver) > 20

----------------------------------------------------------------------------
(* Properties of the generated story *)

\* C19: on the generated demo data the entity_ids of the rows of
\* suspect_rankings with rank <= 2 are exactly E_0412 and E_1098.
C19_TopTwoAreTheSuspects ==
    (Fresh("suspect_rankings") /\ location_events_silver # EmptyBag) =>
        { r.entity_id : r \in { x \in Rows(suspect_rankings) : x.rank <= 2 } }
            = {SUSPECT_1_ID, SUSPECT_2_ID}

----------------------------------------------------------------------------
(* Properties of the pipeline update *)

\* the update before this one read the same events and the same social edges
SameInputs ==
    /\ previous_update # <<>>
    /\ previous_update.location_events_silver = location_events_silver
    /\ previous_update.social_edges_silver = social_edges_silver

----------------------------------------------------------------------------
(* Properties of the generated events *)

\* the devices the story names; no person of the population has their ids
special_entity_ids ==
    {SUSPECT_1_ID, SUSPECT_2_ID, BURNER_ENTITY_ID, FENCE_ENTITY_ID,
     DECOY_ENTITY_ID}

\* C23: the time_bucket of every generated event, a routine ping or an
\* event of the story, is its timestamp floored to a multiple of 15 minutes.
C23_BucketIsFlooredTimestamp ==
    \A r \in Rows(location_events_silver) :
        /\ ToTimestamp(r.time_bucket) = (r.event_timestamp \div 15) * 15
        /\ r.time_bucket_ts = (r.event_timestamp \div 15) * 15

C23_Witness ==
    /\ \E r \in Rows(location_events_silver) :
           /\ r.entity_id \notin special_entity_ids
           /\ r.event_timestamp = At(10, 14, 42)
           /\ r.time_bucket = <<10, 14, 30>>
    /\ \E r \in Rows(location_events_silver) :
           /\ r.entity_id = SUSPECT_1_ID
           /\ r.event_timestamp = At(10, 14, 44)
           /\ r.time_bucket = <<10, 14, 30>>

\* the devices seen in the DC incident cell in the DC incident bucket
DCIncidentDevices ==
    { r.entity_id : r \in { x \in Rows(location_events_silver) :
                              /\ x.h3_cell = "892a1008003ffff"
                              /\ x.time_bucket = <<10, 14, 30>> } }

\* the residents of the DC metro the generator had to draw the crowd from
DCResidents ==
    { r.entity_id : r \in Rows(location_events_silver) } \ special_entity_ids

\* C24: the DC incident cell holds, in the DC incident bucket, the two
\* suspects and the crowd the generator adds: 48 residents of the DC metro,
\* or all of them where there are fewer (50 devices for 48 or more).
C24_DCIncidentCellHoldsSuspectsAndCrowd ==
    location_events_silver # EmptyBag =>
        Cardinality(DCIncidentDevices) = 2 + Least(48, Cardinality(DCResidents))

\* C25: the old device E_0412 has no event in bucket 2025-01-15T14:45 or
\* later, and the burner E_7734 has its earliest event in that bucket, in
\* the cell of the DC incident.
C25_OldDeviceGoneBurnerAppears ==
    location_events_silver # EmptyBag =>
        /\ \A r \in Rows(location_events_silver) :
               r.entity_id = SUSPECT_1_ID =>
                   ~BucketLeq(<<10, 14, 45>>, r.time_bucket)
        /\ \E r \in Rows(location_events_silver) :
               /\ r.entity_id = BURNER_ENTITY_ID
               /\ r.time_bucket = <<10, 14, 45>>
               /\ r.h3_cell = "892a1008003ffff"
        /\ \A r \in Rows(location_events_silver) :
               r.entity_id = BURNER_ENTITY_ID =>
                   /\ BucketLeq(<<10, 14, 45>>, r.time_bucket)
                   /\ r.time_bucket = <<10, 14, 45>> =>
                          r.h3_cell = "892a1008003ffff"

C25_Witness ==
    /\ \E r \in Rows(location_events_silver) :
           /\ r.entity_id = SUSPECT_1_ID
           /\ r.time_bucket = <<10, 14, 30>>
           /\ r.h3_cell = "892a1008003ffff"
    /\ \E r \in Rows(location_events_silver) :
           /\ r.entity_id = BURNER_ENTITY_ID
           /\ r.time_bucket = <<10, 17, 0>>
    /\ DCResidents # {}

----------------------------------------------------------------------------
(* Properties of the Lakebase sync trigger *)

\* C30: the notebook exits with SUCCESS only if the wait loop has seen
\* every table whose refresh was triggered ONLINE or ACTIVE; a table that
\* failed to trigger, was seen FAILED or ERROR, or was still pending when the
\* wait loop ended makes it exit with FAILED.
C30_SuccessOnlyIfAllSynced ==
    sync_pc = "done" =>
        /\ exit_value = "SUCCESS" =>
               \A i \in DOMAIN results :
                   results[i].status = "triggered" => results[i].table \in completed
        /\ (\/ \E i \in DOMAIN results : results[i].status = "failed"
            \/ pending # {}) =>
               exit_value = "FAILED"

====
